---- MODULE Spec2Model ----
(***************************************************************************)
(* A model of the DMP / DMR pipeline of illuminator (src/illuminator/dm.py) *)
(* and of the batch dispatcher of pylluminator (src/pylluminator/samples.py)*)
(*                                                                         *)
(* Numbers.  Beta values are integers (a beta of 0, 1, 2 stands for 0, 0.5, *)
(* 1.0), so a squared Euclidean distance is an integer as well.  A cutoff   *)
(* is kept in quarters of a distance unit (a cutoff c4 stands for c4 / 4)   *)
(* and seg_per_locus in quarters (2 stands for 0.5): numpy's linear         *)
(* interpolation of a quantile is then exact on integers.  A missing value  *)
(* (NaN) is the value NA.                                                   *)
(***************************************************************************)
EXTENDS Integers, Sequences, FiniteSets, TLC

VARIABLES
    dmr_pc, dmr_in, dmr_out,     \* one call of get_dmr: its place, arguments, outcome
    dmp_pc, dmp_in, dmp_run, dmp_out,  \* one call of get_dmp
    smp_samples,     \* Samples.samples: the number of samples of the object
    smp_betas_df,    \* Samples._betas_df: "unset", "None" or "df"
    smp_calculated,  \* calculate_betas was dispatched and nothing has reset since
    smp_last         \* the last call on the object and what it gave

dmr_vars == <<dmr_pc, dmr_in, dmr_out>>
dmp_vars == <<dmp_pc, dmp_in, dmp_run, dmp_out>>
smp_vars == <<smp_samples, smp_betas_df, smp_calculated, smp_last>>
vars == <<dmr_pc, dmr_in, dmr_out, dmp_pc, dmp_in, dmp_run, dmp_out,
          smp_samples, smp_betas_df, smp_calculated, smp_last>>

\* The largest number of probes of one input.
MaxProbes == 3

\* NaN / None inside a table.
NA == -1

SampleNames == <<"s1", "s2">>

Range(s) == {s[i] : i \in 1..Len(s)}

\* The sequence f as a tuple.
AsSeq(f) == f \o <<>>

RECURSIVE SumSeq(_)
SumSeq(s) == IF s = <<>> THEN 0 ELSE Head(s) + SumSeq(Tail(s))

(***************************************************************************)
(* Probe ids.  An id is <<base, suffix>>: "cg7_TC21" is <<7, "_TC21">>.     *)
(***************************************************************************)
remove_probe_suffix(id) == <<id[1], "">>

(***************************************************************************)
(* get_dmr, step by step.  A table is a sequence of rows (records) in row   *)
(* order; the index of a table is the field id.                             *)
(***************************************************************************)

\* probe_coords_df[probe_coords_df.End > probe_coords_df.Start]
NonEmptyCoords(probe_coords_df) ==
    SelectSeq(probe_coords_df, LAMBDA r : r.End > r.Start)

HasNa(vals) == \E k \in 1..Len(vals) : vals[k] = NA

\* betas.dropna()
DropNa(betas) == SelectSeq(betas, LAMBDA r : ~HasNa(r.vals))

AllNa == [k \in 1..Len(SampleNames) |-> NA]

Matches(id, right) == {j \in 1..Len(right) : right[j].id = id}

WithVals(r, vals) ==
    [id |-> r.id, Chromosome |-> r.Chromosome, Start |-> r.Start, End |-> r.End, vals |-> vals]

\* left.join(right, how='inner'): the rows of left, in left's order, that have a
\* row of the same id in right (the ids of right are unique).
RECURSIVE JoinInner(_, _)
JoinInner(left, right) ==
    IF left = <<>> THEN <<>>
    ELSE LET r == Head(left)
             m == Matches(r.id, right)
         IN (IF m = {} THEN <<>> ELSE <<WithVals(r, right[CHOOSE j \in m : TRUE].vals)>>)
            \o JoinInner(Tail(left), right)

\* left.join(right): pandas' default how='left' keeps every row of left, with
\* missing values where right has no row of that id.
RECURSIVE JoinLeft(_, _)
JoinLeft(left, right) ==
    IF left = <<>> THEN <<>>
    ELSE LET r == Head(left)
             m == Matches(r.id, right)
         IN <<WithVals(r, IF m = {} THEN AllNa ELSE right[CHOOSE j \in m : TRUE].vals)>>
            \o JoinLeft(Tail(left), right)

\* non_empty_coords_df.index.map(remove_probe_suffix)
StripIndex(rows) ==
    [i \in 1..Len(rows) |-> [rows[i] EXCEPT !.id = remove_probe_suffix(rows[i].id)]]

\* The join of the second attempt.
RetryJoin(left, right) == JoinLeft(left, right)

\* Plain (lexical) order of the chromosome labels.
ChromRank(c) == CASE c = "chr1" -> 1 [] c = "chr10" -> 2 [] c = "chr2" -> 3

\* r sorts strictly before s: by chromosome, then start, then end.
RangeBefore(r, s) ==
    \/ ChromRank(r.Chromosome) < ChromRank(s.Chromosome)
    \/ /\ r.Chromosome = s.Chromosome
       /\ \/ r.Start < s.Start
          \/ r.Start = s.Start /\ r.End < s.End

\* r, a row that stood before the rows of sorted, goes before the first row
\* that does not sort strictly before it.
RECURSIVE InsertSorted(_, _)
InsertSorted(r, sorted) ==
    IF sorted = <<>> THEN <<r>>
    ELSE IF RangeBefore(Head(sorted), r) THEN <<Head(sorted)>> \o InsertSorted(r, Tail(sorted))
    ELSE <<r>> \o sorted

\* pr.PyRanges(cpg_ids).sort_ranges(): a stable sort, rows of equal keys keep
\* their order.
\* A variant of sort_ranges that leaves the rows as the join gave them.
SortRanges_as_joined(rows) == rows

RECURSIVE SortRanges(_)
SortRanges(rows) ==
    IF rows = <<>> THEN <<>>
    ELSE InsertSorted(Head(rows), SortRanges(Tail(rows)))

\* cpg_ranges['Chromosome'] != cpg_ranges['Chromosome'].shift(-1)
LastProbeInChromosome(cpg_ranges) ==
    [i \in 1..Len(cpg_ranges) |->
        \/ i = Len(cpg_ranges)
        \/ cpg_ranges[i].Chromosome # cpg_ranges[i + 1].Chromosome]

\* One sample's term of (diff(-1) ** 2).sum(axis=1): sum skips a missing term.
SqDiff(a, b) == IF a = NA \/ b = NA THEN 0 ELSE (a - b) * (a - b)

\* (cpg_ranges[sample_names].diff(-1) ** 2).sum(axis=1), the last one set to None
BetaEuclidianDist(cpg_ranges) ==
    [i \in 1..Len(cpg_ranges) |->
        IF i = Len(cpg_ranges) THEN NA
        ELSE SumSeq([k \in 1..Len(SampleNames) |->
                        SqDiff(cpg_ranges[i].vals[k], cpg_ranges[i + 1].vals[k])])]

RECURSIVE InsertInt(_, _)
InsertInt(x, sorted) ==
    IF sorted = <<>> THEN <<x>>
    ELSE IF x < Head(sorted) THEN <<x>> \o sorted
    ELSE <<Head(sorted)>> \o InsertInt(x, Tail(sorted))

RECURSIVE SortInts(_)
SortInts(s) == IF s = <<>> THEN <<>> ELSE InsertInt(Head(s), SortInts(Tail(s)))

\* np.quantile(values, q4 / 4) of a non-empty array, in quarters: linear
\* interpolation between the two order statistics around (n - 1) * q.
Quantile4(values, q4) ==
    LET a  == SortInts(values)
        h4 == (Len(a) - 1) * q4
        lo == h4 \div 4
        g  == h4 % 4
    IN IF g = 0 THEN 4 * a[lo + 1]
       ELSE 4 * a[lo + 1] + g * (a[lo + 2] - a[lo + 1])

\* beta_euclidian_dist[~last_probe_in_chromosome]
NotLastDists(dist, last) ==
    LET idx == SelectSeq([i \in 1..Len(dist) |-> i], LAMBDA i : ~last[i])
    IN [j \in 1..Len(idx) |-> dist[idx[j]]]

\* if not 0 < seg_per_locus < 1: seg_per_locus = 0.5
\* A variant of the test of seg_per_locus that takes 0 and 1 as valid.
SegPerLocusValid_closed(spl4) == 0 <= spl4 /\ spl4 <= 4

\* 0 < seg_per_locus < 1
SegPerLocusValid(spl4) == 0 < spl4 /\ spl4 < 4

EffectiveSegPerLocus(spl4) == IF SegPerLocusValid(spl4) THEN spl4 ELSE 2

Num(v) == [isnum |-> TRUE, v4 |-> v]
NaN == [isnum |-> FALSE, v4 |-> 0]

\* A variant of the comparison that also splits at a distance equal to the
\* cutoff.
DistAbove_or_equal(d, cutoff) == d # NA /\ cutoff.isnum /\ 4 * d >= cutoff.v4

\* beta_euclidian_dist > dist_cutoff: False on a missing distance or cutoff
DistAbove(d, cutoff) == d # NA /\ cutoff.isnum /\ 4 * d > cutoff.v4

\* last_probe_in_chromosome | (beta_euclidian_dist > dist_cutoff)
ChangePoints(last, dist, cutoff) ==
    [i \in 1..Len(last) |-> last[i] \/ DistAbove(dist[i], cutoff)]

\* A variant of the shift that fills with False.
ShiftFill_false(change_points) ==
    [i \in 1..Len(change_points) |-> IF i = 1 THEN FALSE ELSE change_points[i - 1]]

\* change_points.shift(fill_value=True)
ShiftFill(change_points) ==
    [i \in 1..Len(change_points) |-> IF i = 1 THEN TRUE ELSE change_points[i - 1]]

\* change_points.shift(fill_value=True).cumsum()
SegmentId(change_points) ==
    LET shifted == ShiftFill(change_points)
    IN [i \in 1..Len(change_points) |->
            Cardinality({j \in 1..i : shifted[j]})]

(***************************************************************************)
(* The cutoff (dm.py 169-180).  dist_cutoff is [given, v4]; the result is   *)
(* [err, cutoff, log]: err is "" or the exception numpy raises.             *)
(***************************************************************************)
NoCutoff == [given |-> FALSE, v4 |-> 0]
Cutoff(v) == [given |-> TRUE, v4 |-> v]

\* np.quantile(values, 1 - seg_per_locus).  On an empty array numpy returns nan
\* or raises IndexError, depending on its version: np_empty says which.
QuantileCutoff(values, spl4, np_empty) ==
    IF 4 - spl4 < 0 \/ 4 - spl4 > 4
    THEN [err |-> "ValueError", cutoff |-> NaN]
    ELSE IF values = <<>>
    THEN IF np_empty = "nan" THEN [err |-> "", cutoff |-> NaN]
         ELSE [err |-> "IndexError", cutoff |-> NaN]
    ELSE [err |-> "", cutoff |-> Num(Quantile4(values, 4 - spl4))]

DistCutoff(dist_cutoff, seg_per_locus, dist, last, np_empty) ==
    LET q == QuantileCutoff(NotLastDists(dist, last), EffectiveSegPerLocus(seg_per_locus), np_empty)
        r == IF dist_cutoff.given THEN [err |-> "", cutoff |-> Num(dist_cutoff.v4)] ELSE q
        w1 == IF ~dist_cutoff.given /\ ~SegPerLocusValid(seg_per_locus)
              THEN <<"warning: invalid seg_per_locus, setting it to 0.5">> ELSE <<>>
        w2 == IF r.err = "" /\ r.cutoff.isnum /\ r.cutoff.v4 <= 0
              THEN <<"warning: cutoff should be > 0">> ELSE <<>>
    IN [err |-> r.err, cutoff |-> r.cutoff, log |-> w1 \o w2]

(***************************************************************************)
(* Merging the segment ids with all the probes of betas (dm.py 189-201).    *)
(***************************************************************************)
Ids(rows) == [i \in 1..Len(rows) |-> rows[i].id]

\* probe_coords_df.loc[betas.index] raises KeyError when an id of betas is no
\* id of probe_coords_df.
LocRaises(probe_coords_df, betas) ==
    \E i \in 1..Len(betas) : Matches(betas[i].id, probe_coords_df) = {}

\* probe_coords_df.loc[betas.index]: the rows of the ids of betas, in betas' order.
RECURSIVE Loc(_, _)
Loc(probe_coords_df, ids) ==
    IF ids = <<>> THEN <<>>
    ELSE LET m == SelectSeq([j \in 1..Len(probe_coords_df) |-> j],
                            LAMBDA j : probe_coords_df[j].id = Head(ids))
         IN [k \in 1..Len(m) |-> probe_coords_df[m[k]]] \o Loc(probe_coords_df, Tail(ids))

WithSegment(r, sid) ==
    [id |-> r.id, Chromosome |-> r.Chromosome, Start |-> r.Start, End |-> r.End,
     segment_id |-> sid]

\* rows.join(segment_id): a left join on the index; a row of rows is repeated
\* once per entry of segment_id with its id, and has NA when there is none.
RECURSIVE JoinSegmentId(_, _, _)
JoinSegmentId(rows, seg_ids, seg) ==
    IF rows = <<>> THEN <<>>
    ELSE LET r == Head(rows)
             m == SelectSeq([j \in 1..Len(seg_ids) |-> j], LAMBDA j : seg_ids[j] = r.id)
         IN (IF m = <<>> THEN <<WithSegment(r, NA)>>
             ELSE [k \in 1..Len(m) |-> WithSegment(r, seg[m[k]])])
            \o JoinSegmentId(Tail(rows), seg_ids, seg)

\* a sorts strictly before b by segment_id, a missing one last.
SegBefore(a, b) == a.segment_id # NA /\ (b.segment_id = NA \/ a.segment_id < b.segment_id)

RECURSIVE InsertBySegment(_, _)
InsertBySegment(r, sorted) ==
    IF sorted = <<>> THEN <<r>>
    ELSE IF SegBefore(Head(sorted), r) THEN <<Head(sorted)>> \o InsertBySegment(r, Tail(sorted))
    ELSE <<r>> \o sorted

\* .sort_values('segment_id'): rows of one segment_id, and the rows without one,
\* keep their order.
RECURSIVE SortBySegment(_)
SortBySegment(rows) ==
    IF rows = <<>> THEN <<>>
    ELSE InsertBySegment(Head(rows), SortBySegment(Tail(rows)))

\* segment_id.max()
RECURSIVE MaxSeq(_)
MaxSeq(s) ==
    IF Len(s) = 1 THEN s[1]
    ELSE LET m == MaxSeq(Tail(s)) IN IF Head(s) > m THEN Head(s) ELSE m

\* The id of the n-th (from 0) probe without a segment:
\* [n for n in range(nb_na_segments)] + last_segment_id + 1
\* A variant of the new ids that starts at last_segment_id.
NaSegmentId_from_last(n, last_segment_id) == n + last_segment_id

NaSegmentId(n, last_segment_id) == n + last_segment_id + 1

\* segments.loc[na_segments_indexes, 'segment_id'] = ...
AssignNaSegments(segments, last_segment_id) ==
    [i \in 1..Len(segments) |->
        IF segments[i].segment_id # NA THEN segments[i]
        ELSE [segments[i] EXCEPT !.segment_id =
                NaSegmentId(Cardinality({j \in 1..(i - 1) : segments[j].segment_id = NA}),
                            last_segment_id)]]

Segments(probe_coords_df, betas, cpg_ranges, segment_id) ==
    AssignNaSegments(
        SortBySegment(JoinSegmentId(Loc(probe_coords_df, Ids(betas)), Ids(cpg_ranges), segment_id)),
        MaxSeq(segment_id))

(***************************************************************************)
(* The segments' start and end (dm.py 203-211).                             *)
(***************************************************************************)
Members(rows, sid) == {j \in 1..Len(rows) : rows[j].segment_id = sid}

\* A variant of the minimum that takes the largest value.
MinOf_largest(S) == CHOOSE x \in S : \A y \in S : x >= y

MinOf(S) == CHOOSE x \in S : \A y \in S : x <= y
MaxOf(S) == CHOOSE x \in S : \A y \in S : x >= y

\* segments_grouped['Start'].transform('min'), segments_grouped['End'].transform('max')
WithSegmentRange(rows) ==
    [i \in 1..Len(rows) |->
        [id |-> rows[i].id, Chromosome |-> rows[i].Chromosome,
         Start |-> rows[i].Start, End |-> rows[i].End,
         segment_id |-> rows[i].segment_id,
         segment_start |-> MinOf({rows[j].Start : j \in Members(rows, rows[i].segment_id)}),
         segment_end |-> MaxOf({rows[j].End : j \in Members(rows, rows[i].segment_id)})]]

(***************************************************************************)
(* The segments' p-values (dm.py 203-221).  A p-value is a number of        *)
(* thousandths, NA when missing.  The p-values of dmp are the survival      *)
(* function of the normal distribution at -1, 0 and 1, so that Stouffer's   *)
(* sum of z-scores is an integer.                                           *)
(***************************************************************************)
\* The p-value 1.0, in thousandths.
One == 1000

\* 1000 * norm.sf(z / sqrt(k)) for k = 1..6 and z = -k..k
NormSf ==
    << <<841, 500, 159>>,
       <<921, 760, 500, 240, 79>>,
       <<958, 876, 718, 500, 282, 124, 42>>,
       <<977, 933, 841, 691, 500, 309, 159, 67, 23>>,
       <<987, 963, 910, 814, 673, 500, 327, 186, 90, 37, 13>>,
       <<993, 979, 949, 890, 793, 658, 500, 342, 207, 110, 51, 21, 7>> >>

\* norm.isf(p)
ZScore(p) == CASE p = 159 -> 1 [] p = 500 -> 0 [] p = 841 -> -1

\* combine_pvalues(p_values, method='stouffer')[1]: missing when a p-value
\* of the segment is.
combine_p_values_stouffer(p_values) ==
    IF \E k \in 1..Len(p_values) : p_values[k] = NA THEN NA
    ELSE LET z == SumSeq([k \in 1..Len(p_values) |-> ZScore(p_values[k])])
         IN NormSf[Len(p_values)][z + Len(p_values) + 1]

\* segments.join(dmp): the p_value of the row of dmp of the same id, missing
\* when dmp has none.
JoinDmp(segments, dmp) ==
    [i \in 1..Len(segments) |->
        LET m == Matches(segments[i].id, dmp)
        IN IF m = {} THEN NA ELSE dmp[CHOOSE j \in m : TRUE].p_value]

\* The p-values of the rows of segment sid, from row j on.
RECURSIVE GroupPValues(_, _, _, _)
GroupPValues(rows, p_value, sid, j) ==
    IF j > Len(rows) THEN <<>>
    ELSE (IF rows[j].segment_id = sid THEN <<p_value[j]>> ELSE <<>>)
         \o GroupPValues(rows, p_value, sid, j + 1)

\* segments_grouped['p_value'].transform(combine_p_values_stouffer)
SegmentPValue(rows, p_value) ==
    [i \in 1..Len(rows) |->
        combine_p_values_stouffer(GroupPValues(rows, p_value, rows[i].segment_id, 1))]

\* An adjusted p-value is the fraction num / den, or missing.
RECURSIVE Gcd(_, _)
Gcd(a, b) == IF b = 0 THEN a ELSE Gcd(b, a % b)
Frac(n, d) == [isnum |-> TRUE, num |-> n \div Gcd(n, d), den |-> d \div Gcd(n, d)]
NaNFrac == [isnum |-> FALSE, num |-> 0, den |-> 1]
FracLess(a, b) == a.num * b.den < b.num * a.den
FracMin(a, b) == IF FracLess(b, a) THEN b ELSE a

\* pvals / ecdffactor, ecdffactor = arange(1, n + 1) / n
CorrectedRaw(sorted) ==
    [j \in 1..Len(sorted) |-> Frac(sorted[j] * Len(sorted), j * One)]

RECURSIVE MinFrom(_, _)
MinFrom(raw, j) == IF j = Len(raw) THEN raw[j] ELSE FracMin(raw[j], MinFrom(raw, j + 1))

\* A variant of the accumulation that keeps the raw corrections.
Accumulate_none(raw) == raw

\* np.minimum.accumulate(pvals_corrected_raw[::-1])[::-1]
Accumulate(raw) == [j \in 1..Len(raw) |-> MinFrom(raw, j)]

\* pvals_corrected[pvals_corrected > 1] = 1
CapAtOne(f) == IF f.num > f.den THEN Frac(1, 1) ELSE f

\* The place of pvals[i] in np.argsort(pvals).
SortIndex(pvals, i) ==
    1 + Cardinality({r \in 1..Len(pvals) : pvals[r] < pvals[i]})
      + Cardinality({r \in 1..(i - 1) : pvals[r] = pvals[i]})

\* multipletests(pvals, method='fdr_bh')[1]
FdrBh(pvals) ==
    LET corrected == AsSeq(Accumulate(CorrectedRaw(SortInts(pvals))))
    IN [i \in 1..Len(pvals) |-> CapAtOne(corrected[SortIndex(pvals, i)])]

\* idxs = ~np.isnan(dmr.segment_p_value); the adjusted values are written in
\* the rows of idxs, the other rows keep a missing value.
Adjusted(segment_p_value) ==
    LET idxs == {i \in 1..Len(segment_p_value) : segment_p_value[i] # NA}
        pvals == SelectSeq(segment_p_value, LAMBDA x : x # NA)
        adjusted == AsSeq(FdrBh(pvals))
    IN [i \in 1..Len(segment_p_value) |->
          IF i \in idxs
          THEN adjusted[Cardinality({r \in 1..i : r \in idxs})]
          ELSE NaNFrac]

\* multipletests of no p-value at all divides by the number of tests.
BhRaises(segment_p_value, bh_empty) ==
    /\ \A i \in 1..Len(segment_p_value) : segment_p_value[i] = NA
    /\ bh_empty = "ZeroDivisionError"

\* dm.py 204-221: the columns p_value, segment_p_value and
\* segment_p_value_adjusted of the rows.
WithPValues(rows, dmp) ==
    LET p_value == AsSeq(JoinDmp(rows, dmp))
        segment_p_value == AsSeq(SegmentPValue(rows, p_value))
        adjusted == AsSeq(Adjusted(segment_p_value))
    IN [i \in 1..Len(rows) |->
          [id |-> rows[i].id, Chromosome |-> rows[i].Chromosome,
           Start |-> rows[i].Start, End |-> rows[i].End,
           segment_id |-> rows[i].segment_id,
           segment_start |-> rows[i].segment_start, segment_end |-> rows[i].segment_end,
           p_value |-> p_value[i], segment_p_value |-> segment_p_value[i],
           segment_p_value_adjusted |-> adjusted[i]]]

(***************************************************************************)
(* get_dmr (dm.py 122-230).  The outcome is a record: kind is "table" (a    *)
(* table is returned), "empty" (the empty table of the no-match error) or   *)
(* the name of the exception that leaves the function.                      *)
(***************************************************************************)
NoOutcome ==
    [kind |-> "not_called", retried |-> FALSE, segmented |-> FALSE, cpg_ranges |-> <<>>,
     last |-> <<>>, dist |-> <<>>, cutoff |-> NaN, change_points |-> <<>>,
     segment_id |-> <<>>, table |-> <<>>, log |-> <<>>]

NoMatchError == "error: no match found between genomic probe coordinates and beta probe IDs"

GetDmr(annotation, betas, dmp, dist_cutoff, seg_per_locus, np_empty, bh_empty) ==
    LET probe_coords_df == annotation
        non_empty_coords_df == NonEmptyCoords(probe_coords_df)
        betas_no_na == DropNa(betas)
        first == JoinInner(non_empty_coords_df, betas_no_na)
        retried == Len(first) = 0
        cpg_ids == IF retried THEN RetryJoin(AsSeq(StripIndex(non_empty_coords_df)), betas_no_na)
                   ELSE first
    IN IF Len(cpg_ids) = 0
       THEN [NoOutcome EXCEPT !.kind = "empty", !.retried = retried, !.log = <<NoMatchError>>]
       ELSE
       LET cpg_ranges == SortRanges(cpg_ids)
           last == AsSeq(LastProbeInChromosome(cpg_ranges))
           dist == AsSeq(BetaEuclidianDist(cpg_ranges))
           c == DistCutoff(dist_cutoff, seg_per_locus, dist, last, np_empty)
           sofar == [NoOutcome EXCEPT !.retried = retried, !.segmented = TRUE,
                        !.cpg_ranges = cpg_ranges, !.last = last, !.dist = dist,
                        !.log = c.log]
       IN IF c.err # "" THEN [sofar EXCEPT !.kind = c.err]
          ELSE
          LET change_points == AsSeq(ChangePoints(last, dist, c.cutoff))
              segment_id == AsSeq(SegmentId(change_points))
              seg == [sofar EXCEPT !.cutoff = c.cutoff, !.change_points = change_points,
                         !.segment_id = segment_id]
          IN IF LocRaises(probe_coords_df, betas) THEN [seg EXCEPT !.kind = "KeyError"]
             ELSE
             LET dmr == AsSeq(WithPValues(
                           AsSeq(WithSegmentRange(
                              Segments(probe_coords_df, betas, cpg_ranges, segment_id))),
                           dmp))
             IN IF BhRaises([i \in 1..Len(dmr) |-> dmr[i].segment_p_value], bh_empty)
                THEN [seg EXCEPT !.kind = "ZeroDivisionError"]
                ELSE [seg EXCEPT !.kind = "table", !.table = dmr]

(***************************************************************************)
(* The inputs.  Probe number i of an input is of one kind: the rows of the  *)
(* annotation with base id i (suffix, chromosome, start, end) and the rows  *)
(* of the beta matrix with id <<i, "">> (one value per sample).             *)
(***************************************************************************)
Coord(sfx, chrom, start, end) ==
    [suffix |-> sfx, Chromosome |-> chrom, Start |-> start, End |-> end]

ProbeKinds ==
    { [coords |-> <<Coord("", "chr1", 100, 101)>>, betas |-> << <<0, 0>> >>],
      [coords |-> <<Coord("", "chr1", 200, 201)>>, betas |-> << <<1, 0>> >>],
      [coords |-> <<Coord("", "chr1", 200, 201)>>, betas |-> << <<2, 2>> >>],
      [coords |-> <<Coord("", "chr2", 100, 101)>>, betas |-> << <<0, 0>> >>],
      \* a zero-width range
      [coords |-> <<Coord("", "chr1", 300, 300)>>, betas |-> << <<1, 0>> >>],
      \* a missing beta value
      [coords |-> <<Coord("", "chr2", 200, 201)>>, betas |-> << <<NA, 1>> >>],
      \* the annotation id carries a suffix
      [coords |-> <<Coord("_TC21", "chr1", 100, 101)>>, betas |-> << <<1, 0>> >>],
      \* the id with a zero-width range, the suffixed id with a range
      [coords |-> <<Coord("", "chr1", 300, 300), Coord("_TC21", "chr1", 300, 301)>>,
       betas |-> << <<2, 2>> >>],
      \* a probe of the beta matrix only
      [coords |-> <<>>, betas |-> << <<0, 0>> >>],
      \* a probe of the annotation only
      [coords |-> <<Coord("", "chr2", 300, 301)>>, betas |-> <<>>] }

RECURSIVE AnnotationOf(_, _)
AnnotationOf(kinds, i) ==
    IF i > Len(kinds) THEN <<>>
    ELSE [k \in 1..Len(kinds[i].coords) |->
            LET c == kinds[i].coords[k]
            IN [id |-> <<i, c.suffix>>, Chromosome |-> c.Chromosome,
                Start |-> c.Start, End |-> c.End]]
         \o AnnotationOf(kinds, i + 1)

RECURSIVE BetasOf(_, _)
BetasOf(kinds, i) ==
    IF i > Len(kinds) THEN <<>>
    ELSE [k \in 1..Len(kinds[i].betas) |-> [id |-> <<i, "">>, vals |-> kinds[i].betas[k]]]
         \o BetasOf(kinds, i + 1)

\* dist_cutoff and seg_per_locus (in quarters): without a cutoff every
\* seg_per_locus, with a cutoff the default seg_per_locus.
DmrParams ==
    {[dist_cutoff |-> NoCutoff, seg_per_locus |-> s] : s \in {-1, 0, 1, 2, 3, 4, 5}}
    \cup {[dist_cutoff |-> Cutoff(4), seg_per_locus |-> 2]}

\* The default call and the call with a cutoff.
DefaultParams == {p \in DmrParams : p.seg_per_locus = 2}

\* What np.quantile does with an empty array, and multipletests with no
\* p-value: both depend on the version of the library.
NpEmpty == {"nan", "IndexError"}
BhEmpty == {"nan", "ZeroDivisionError"}

Run(in) ==
    GetDmr(in.annotation, in.betas, in.dmp, in.dist_cutoff, in.seg_per_locus,
           in.np_empty, in.bh_empty)

NoInput ==
    [annotation |-> <<>>, betas |-> <<>>, dmp |-> <<>>, dist_cutoff |-> NoCutoff,
     seg_per_locus |-> 2, np_empty |-> "nan", bh_empty |-> "nan"]

\* The table of get_dmp for the beta matrix, every p-value one half.
DmpOf(betas) == AsSeq([i \in 1..Len(betas) |-> [id |-> betas[i].id, p_value |-> 500]])

\* The probes with a complete beta row and a range, as in ProbeKinds.
CompleteKinds == {k \in ProbeKinds : /\ Len(k.coords) = 1 /\ Len(k.betas) = 1
                                     /\ k.coords[1].suffix = ""
                                     /\ k.coords[1].End > k.coords[1].Start
                                     /\ ~HasNa(k.betas[1])}

\* Up to MaxProbes probes of any kind, or MaxProbes + 1 complete probes.
InputKinds ==
    UNION {[1..n -> ProbeKinds] : n \in 0..MaxProbes}
    \cup [1..(MaxProbes + 1) -> CompleteKinds]

DmrInputs(params) ==
    {[annotation |-> AsSeq(AnnotationOf(kinds, 1)), betas |-> AsSeq(BetasOf(kinds, 1)),
      dmp |-> DmpOf(AsSeq(BetasOf(kinds, 1))),
      dist_cutoff |-> p.dist_cutoff, seg_per_locus |-> p.seg_per_locus,
      np_empty |-> "nan", bh_empty |-> "nan"] :
        kinds \in InputKinds, p \in params}

\* The inputs with any p-value in dmp: probes with a range, on one chromosome
\* or two, with or without a missing beta value.
PValueKinds ==
    {k \in ProbeKinds : /\ Len(k.coords) = 1 /\ Len(k.betas) = 1
                        /\ k.coords[1].suffix = ""
                        /\ k.coords[1].End > k.coords[1].Start
                        /\ k.betas[1] # <<2, 2>>}
PValues == {NA, 159, 841}

PValueInputs ==
    {[annotation |-> AsSeq(AnnotationOf(kinds, 1)), betas |-> AsSeq(BetasOf(kinds, 1)),
      dmp |-> AsSeq([i \in 1..Len(kinds) |-> [id |-> <<i, "">>, p_value |-> pv[i]]]),
      dist_cutoff |-> p.dist_cutoff, seg_per_locus |-> p.seg_per_locus,
      np_empty |-> "nan", bh_empty |-> "nan"] :
        kinds \in UNION {[1..n -> PValueKinds] : n \in 0..MaxProbes},
        pv \in [1..MaxProbes -> PValues], p \in DefaultParams}

(***************************************************************************)
(* get_dmp (dm.py 53-111).  A column name is a sequence of characters, so   *)
(* that lower() and `in` are computed.  A fitted value is not computed: it  *)
(* is the term [stat, factor, endog, exog], "the statistic stat of factor   *)
(* in the fit of the values endog on the design matrix exog".               *)
(***************************************************************************)
UpperCase == <<"A", "B", "C", "D", "E", "F", "G", "H", "I", "J", "K", "L", "M",
               "N", "O", "P", "Q", "R", "S", "T", "U", "V", "W", "X", "Y", "Z">>
LowerCase == <<"a", "b", "c", "d", "e", "f", "g", "h", "i", "j", "k", "l", "m",
               "n", "o", "p", "q", "r", "s", "t", "u", "v", "w", "x", "y", "z">>

\* str.lower()
LowerChar(c) ==
    IF \E k \in 1..Len(UpperCase) : UpperCase[k] = c
    THEN LowerCase[CHOOSE k \in 1..Len(UpperCase) : UpperCase[k] = c]
    ELSE c
Lower(str) == AsSeq([k \in 1..Len(str) |-> LowerChar(str[k])])

\* needle in str
Contains(needle, str) ==
    \E k \in 1..(Len(str) - Len(needle) + 1) : SubSeq(str, k, k + Len(needle) - 1) = needle

Intercept == <<"i", "n", "t", "e", "r", "c", "e", "p", "t">>

\* A variant of the test that compares the name as it is written.
IsFactor_case_sensitive(f) == ~Contains(Intercept, f)

\* 'intercept' not in f.lower()
IsFactor(f) == ~Contains(Intercept, Lower(f))

\* [f for f in design_matrix.columns if 'intercept' not in f.lower()]
FactorNames(design_columns) == SelectSeq(design_columns, IsFactor)

PValue == <<"p", "_", "v", "a", "l", "u", "e">>
TValue == <<"t", "_", "v", "a", "l", "u", "e", "_">>
Estimate == <<"e", "s", "t", "i", "m", "a", "t", "e", "_">>
StdErr == <<"s", "t", "d", "_", "e", "r", "r", "_">>

\* ['p_value'] extended, per factor, by t_value_, estimate_ and std_err_
RECURSIVE FactorColumns(_)
FactorColumns(factor_names) ==
    IF factor_names = <<>> THEN <<>>
    ELSE <<TValue \o Head(factor_names), Estimate \o Head(factor_names),
           StdErr \o Head(factor_names)>> \o FactorColumns(Tail(factor_names))

ColumnNames(factor_names) == <<PValue>> \o FactorColumns(factor_names)

\* OLS(betas_values, design_matrix, missing='drop') raises ValueError when no
\* sample is left: there is no try around it.
FitRaises(betas_values) == \A k \in 1..Len(betas_values) : betas_values[k] = NA

Fitted(stat, factor, betas_values, design_matrix) ==
    [stat |-> stat, factor |-> factor, endog |-> betas_values, exog |-> design_matrix]

RECURSIVE FactorResults(_, _, _)
FactorResults(factor_names, betas_values, design_matrix) ==
    IF factor_names = <<>> THEN <<>>
    ELSE <<Fitted("tvalues", Head(factor_names), betas_values, design_matrix),
           Fitted("params", Head(factor_names), betas_values, design_matrix),
           Fitted("bse", Head(factor_names), betas_values, design_matrix)>>
         \o FactorResults(Tail(factor_names), betas_values, design_matrix)

\* get_model_parameters: the list of results, <<>> when the fit raises.
get_model_parameters(betas_values, design_matrix, factor_names) ==
    IF FitRaises(betas_values) THEN <<>>
    ELSE <<Fitted("f_pvalue", <<>>, betas_values, design_matrix)>>
         \o FactorResults(factor_names, betas_values, design_matrix)

\* A variant of the test that takes any table with columns.
HasSampleName_any_column(sample_sheet_columns) == sample_sheet_columns # <<>>

\* 'sample_name' not in sample_sheet.columns
HasSampleName(sample_sheet_columns) == "sample_name" \in Range(sample_sheet_columns)

\* if not keep_na: betas = betas.dropna()
KeptBetas(betas, keep_na) == IF keep_na THEN betas ELSE DropNa(betas)

\* len(betas) <= 10000 (in the model: 2, so that both paths are short)
ParallelThreshold == 2
Sequential(betas) == Len(betas) <= ParallelThreshold

NoTable == [kind |-> "not_called", index |-> <<>>, columns |-> <<>>, rows |-> <<>>, log |-> <<>>]
NoRun == [betas |-> <<>>, design_matrix |-> <<>>, factor_names |-> <<>>,
          column_names |-> <<>>, slots |-> <<>>, order |-> <<>>]

\* pd.DataFrame(result_array, index=betas.index, columns=column_names)
DataFrame(result_array, betas, column_names) ==
    [kind |-> "table", index |-> Ids(betas), columns |-> column_names,
     rows |-> result_array, log |-> <<>>]

Raised(exception) == [NoTable EXCEPT !.kind = exception]

\* The probes fitted by the list comprehension, in order: it stops at the
\* first fit that raises.
RECURSIVE FittedInOrder(_, _)
FittedInOrder(betas, i) ==
    IF i > Len(betas) THEN <<>>
    ELSE IF FitRaises(betas[i].vals) THEN <<i>>
    ELSE <<i>> \o FittedInOrder(betas, i + 1)

\* [get_model_parameters(row[1:], ...) for row in betas.itertuples()]
SequentialResults(betas, design_matrix, factor_names) ==
    AsSeq([i \in 1..Len(betas) |->
             get_model_parameters(betas[i].vals, design_matrix, factor_names)])

\* A variant of the list that holds the results in the order in which the
\* workers ended.
ParallelResults_as_completed(slots, order) ==
    AsSeq([k \in 1..Len(order) |-> slots[order[k]]])

\* The list Parallel(n_jobs=-1)(...) returns: the results in the order of
\* the tasks, whatever the order in which the workers ended.
ParallelResults(slots, order) == slots

\* The table of the results, or the exception of a fit.
Outcome(result_array, betas, column_names) ==
    IF \E i \in 1..Len(result_array) : result_array[i] = <<>>
    THEN Raised("ValueError")
    ELSE DataFrame(result_array, betas, column_names)

SampleSheetError == "error: dataframe sample_sheet must have a sample_name column"

\* The arguments: probes of three rows of values, the columns of the sample
\* sheet, the columns patsy's dmatrix builds from the formula, keep_na.
DmpRows == {<<0, 1>>, <<NA, 1>>, <<NA, NA>>}
DesignNames ==
    { <<"I", "n", "t", "e", "r", "c", "e", "p", "t">>,
      <<"a", "g", "e">>,
      <<"s", "e", "x">>,
      <<"x", "[", "T", ".", "I", "N", "T", "E", "R", "C", "E", "P", "T", "]">> }
\* The largest number of columns of a design matrix.
MaxTerms == 2
DesignMatrices ==
    {d \in UNION {[1..n -> DesignNames] : n \in 1..MaxTerms} :
        \A i, j \in 1..Len(d) : i # j => d[i] # d[j]}
SampleSheets == {<<"sample_name", "age">>, <<"Sample_Name", "age">>}

DmpInputs ==
    {[betas |-> AsSeq([i \in 1..Len(rows) |-> [id |-> <<i, "">>, vals |-> rows[i]]]),
      sample_sheet |-> sheet, design_columns |-> AsSeq(d), keep_na |-> k] :
        rows \in UNION {[1..n -> DmpRows] : n \in 0..MaxProbes},
        sheet \in SampleSheets, d \in DesignMatrices, k \in BOOLEAN}

NoDmpInput == [betas |-> <<>>, sample_sheet |-> <<"sample_name">>,
               design_columns |-> <<>>, keep_na |-> TRUE]

\* The run once the design matrix and the column names are made (dm.py 81-98).
Prepared(in) ==
    LET betas == KeptBetas(in.betas, in.keep_na)
        factor_names == FactorNames(in.design_columns)
    IN [betas |-> betas, design_matrix |-> in.design_columns,
        factor_names |-> factor_names, column_names |-> ColumnNames(factor_names),
        slots |-> AsSeq([i \in 1..Len(betas) |-> <<>>]), order |-> <<>>]

\* dm.py 77-79: no sample_name column.
get_dmp_invalid ==
    /\ dmp_pc = "idle"
    /\ ~HasSampleName(dmp_in.sample_sheet)
    /\ dmp_out' = [NoTable EXCEPT !.kind = "None", !.log = <<SampleSheetError>>]
    /\ dmp_pc' = "done"
    /\ UNCHANGED <<dmp_in, dmp_run, dmr_vars, smp_vars>>

\* dm.py 101-102 and 111: the small data set.
get_dmp_sequential ==
    /\ dmp_pc = "idle"
    /\ HasSampleName(dmp_in.sample_sheet)
    /\ LET run == Prepared(dmp_in)
           result_array == SequentialResults(run.betas, run.design_matrix, run.factor_names)
       IN /\ Sequential(run.betas)
          /\ dmp_run' = [run EXCEPT !.slots = result_array,
                                    !.order = FittedInOrder(run.betas, 1)]
          /\ dmp_out' = Outcome(result_array, run.betas, run.column_names)
    /\ dmp_pc' = "done"
    /\ UNCHANGED <<dmp_in, dmr_vars, smp_vars>>

\* dm.py 104-107: one task per probe is handed to the workers.
get_dmp_dispatch ==
    /\ dmp_pc = "idle"
    /\ HasSampleName(dmp_in.sample_sheet)
    /\ ~Sequential(Prepared(dmp_in).betas)
    /\ dmp_run' = Prepared(dmp_in)
    /\ dmp_pc' = "parallel"
    /\ UNCHANGED <<dmp_in, dmp_out, dmr_vars, smp_vars>>

Pending(i) == i \notin Range(dmp_run.order)

\* A worker ends the task of probe i (wrapper_get_model_parameters).
worker_done(i) ==
    /\ dmp_pc = "parallel"
    /\ Pending(i)
    /\ dmp_run' = [dmp_run EXCEPT
          !.slots[i] = get_model_parameters(dmp_run.betas[i].vals, dmp_run.design_matrix,
                                            dmp_run.factor_names),
          !.order = Append(dmp_run.order, i)]
    /\ UNCHANGED <<dmp_pc, dmp_in, dmp_out, dmr_vars, smp_vars>>

\* Parallel() returns once every task has ended, or raises the exception of
\* a task that has; dm.py 111 makes the table.
get_dmp_collect ==
    /\ dmp_pc = "parallel"
    /\ \/ \A i \in 1..Len(dmp_run.betas) : ~Pending(i)
       \/ \E i \in 1..Len(dmp_run.betas) : ~Pending(i) /\ dmp_run.slots[i] = <<>>
    /\ dmp_out' = Outcome(ParallelResults(dmp_run.slots, dmp_run.order), dmp_run.betas,
                          dmp_run.column_names)
    /\ dmp_pc' = "done"
    /\ UNCHANGED <<dmp_in, dmp_run, dmr_vars, smp_vars>>

(***************************************************************************)
(* Samples (pylluminator/samples.py 46-103): the object after __init__, the *)
(* methods of Sample dispatched through __getattr__, and betas().           *)
(***************************************************************************)
\* The largest number of samples of an object.
MaxSamples == 3

\* supported_functions
SupportedFunctions ==
    {"dye_bias_correction", "dye_bias_correction_nl", "noob_background_correction",
     "scrub_background_correction", "poobah", "infer_type1_channel", "apply_quality_mask",
     "apply_non_unique_mask", "apply_xy_mask", "merge_annotation_info", "calculate_betas"}

\* The methods after which the stored betas are kept.
MaskFunctions == {"apply_quality_mask", "apply_non_unique_mask", "apply_xy_mask"}

\* The attributes of class Sample that samples.py names: the methods listed
\* in the docstring of Samples, betas and from_sesame.  The attributes
\* set on a Sample object (masked_indexes, idata, name) are not attributes of
\* the class.
SampleClassAttributes == SupportedFunctions \cup {"betas", "from_sesame"}

\* The names asked of a Samples object that are not attributes it has.
OtherNames == {"from_sesame", "plot_betas"}

NoCall == [op |-> "__init__", mask |-> FALSE, ret |-> "None", log |-> <<>>]
Call(op, mask, ret, log) == [op |-> op, mask |-> mask, ret |-> ret, log |-> log]

UndefinedError == "error: undefined attribute/method for class Samples"

\* Samples.__getattr__(name): "method" when it returns the dispatching
\* method, "None" when it logs the error, "AttributeError" when
\* getattr(Sample, name) raises.
GetAttr(name) ==
    IF name \notin SampleClassAttributes THEN "AttributeError"
    ELSE IF name \in SupportedFunctions THEN "method"
    ELSE "None"

\* self._betas_df: the attribute when it is set, __getattr__ otherwise.
ReadBetasDf(betas_df) == IF betas_df = "unset" THEN GetAttr("_betas_df") ELSE betas_df

\* elif method_name not in ['apply_quality_mask', 'apply_non_unique_mask', 'apply_xy_mask']
ResetAfter(method_name) ==
    method_name # "calculate_betas" /\ method_name \notin MaskFunctions

\* The method __getattr__ returns, called: samples.<method_name>(...)
dispatch(method_name) ==
    /\ method_name \in SupportedFunctions
    /\ GetAttr(method_name) = "method"
    /\ IF method_name = "calculate_betas"
       THEN IF smp_samples = 0
            \* pd.concat of an empty list raises
            THEN /\ smp_last' = Call(method_name, FALSE, "ValueError", <<>>)
                 /\ UNCHANGED smp_betas_df
            ELSE /\ smp_last' = Call(method_name, FALSE, "None", <<>>)
                 /\ smp_betas_df' = "df"
       ELSE /\ smp_last' = Call(method_name, FALSE, "None", <<>>)
            /\ smp_betas_df' = IF ResetAfter(method_name) THEN "None" ELSE smp_betas_df
    /\ smp_calculated' = IF method_name = "calculate_betas" THEN TRUE
                         ELSE IF method_name \in MaskFunctions THEN smp_calculated
                         ELSE FALSE
    /\ UNCHANGED <<smp_samples, dmr_vars, dmp_vars>>

\* samples.<name> for a name that is no supported function.
getattr_undefined(name) ==
    /\ name \in OtherNames
    /\ smp_last' = Call(name, FALSE, GetAttr(name),
                        IF GetAttr(name) = "None" THEN <<UndefinedError>> ELSE <<>>)
    /\ UNCHANGED <<smp_samples, smp_betas_df, smp_calculated, dmr_vars, dmp_vars>>

\* samples.betas(mask): with mask the table that mask_dataframe makes of the
\* stored one.
betas(mask) ==
    /\ smp_last' = Call("betas", mask,
                        IF mask /\ ReadBetasDf(smp_betas_df) # "AttributeError"
                        THEN "masked"
                        ELSE ReadBetasDf(smp_betas_df),
                        IF ReadBetasDf(smp_betas_df) = "None" /\ smp_betas_df = "unset"
                        THEN <<UndefinedError>> ELSE <<>>)
    /\ UNCHANGED <<smp_samples, smp_betas_df, smp_calculated, dmr_vars, dmp_vars>>

SmpIdle ==
    /\ smp_samples = 0
    /\ smp_betas_df = "unset"
    /\ smp_calculated = FALSE
    /\ smp_last = NoCall

DmrIdle == dmr_pc = "idle" /\ dmr_in = NoInput /\ dmr_out = NoOutcome
DmpIdle == dmp_pc = "idle" /\ dmp_in = NoDmpInput /\ dmp_run = NoRun /\ dmp_out = NoTable

InitDmp ==
    /\ DmrIdle
    /\ SmpIdle
    /\ dmp_pc = "idle"
    /\ dmp_in \in DmpInputs
    /\ dmp_run = NoRun
    /\ dmp_out = NoTable

NextDmp ==
    \/ get_dmp_invalid
    \/ get_dmp_sequential
    \/ get_dmp_dispatch
    \/ \E i \in 1..Len(dmp_run.betas) : worker_done(i)
    \/ get_dmp_collect

SpecDmp == InitDmp /\ [][NextDmp]_vars

Init ==
    /\ dmr_pc = "idle"
    /\ dmr_in \in DmrInputs(DmrParams)
    /\ dmr_out = NoOutcome
    /\ DmpIdle
    /\ SmpIdle

\* The calls of the permutation properties: the inputs of up to MaxProbes rows,
\* the default parameters.
InitDefault ==
    /\ dmr_pc = "idle"
    /\ dmr_in \in {in \in DmrInputs(DefaultParams) :
                      Len(in.betas) <= MaxProbes /\ Len(in.annotation) <= MaxProbes}
    /\ dmr_out = NoOutcome
    /\ DmpIdle
    /\ SmpIdle

\* One call of get_dmr, on either numpy: the IndexError of the one is a run of
\* its own only where it is raised.
get_dmr ==
    /\ dmr_pc = "idle"
    /\ \E e \in NpEmpty, z \in BhEmpty :
         LET in == [dmr_in EXCEPT !.np_empty = e, !.bh_empty = z]
             o == Run(in)
         IN /\ e = "IndexError" => o.kind = "IndexError"
            /\ z = "ZeroDivisionError" => o.kind = "ZeroDivisionError"
            /\ dmr_in' = in
            /\ dmr_out' = o
    /\ dmr_pc' = "done"
    /\ UNCHANGED <<dmp_vars, smp_vars>>

NextDmr == get_dmr

SpecDmr == Init /\ [][NextDmr]_vars

SpecDmrOrder == InitDefault /\ [][NextDmr]_vars

InitPValues ==
    /\ dmr_pc = "idle"
    /\ dmr_in \in PValueInputs
    /\ dmr_out = NoOutcome
    /\ DmpIdle
    /\ SmpIdle

SpecDmrPValues == InitPValues /\ [][NextDmr]_vars

\* A Samples object as __init__ leaves it, with the samples that read_samples
\* or from_sesame put in it.
InitSamples ==
    /\ DmrIdle
    /\ DmpIdle
    /\ smp_samples \in 0..MaxSamples
    /\ smp_betas_df = "unset"
    /\ smp_calculated = FALSE
    /\ smp_last = NoCall

NextSamples ==
    \/ \E method_name \in SupportedFunctions : dispatch(method_name)
    \/ \E name \in OtherNames : getattr_undefined(name)
    \/ \E mask \in BOOLEAN : betas(mask)

SpecSamples == InitSamples /\ [][NextSamples]_vars

(***************************************************************************)
(* Properties of get_dmr.                                                   *)
(***************************************************************************)
DmrDone == dmr_pc = "done"
Returned == DmrDone /\ dmr_out.kind = "table"

\* The rows of a table with the id of row b.
RowsOf(table, id) == {j \in 1..Len(table) : table[j].id = id}

\* An annotation row with a range and a complete beta row have the same id,
\* as they are or once the suffix of the annotation id is removed.
ExactMatch(in) ==
    \E a \in Range(in.annotation) : \E b \in Range(in.betas) :
        a.End > a.Start /\ ~HasNa(b.vals) /\ a.id = b.id
StrippedMatch(in) ==
    \E a \in Range(in.annotation) : \E b \in Range(in.betas) :
        a.End > a.Start /\ ~HasNa(b.vals) /\ <<a.id[1], "">> = b.id
MatchFound(in) == ExactMatch(in) \/ StrippedMatch(in)

NumpyRaised == dmr_out.kind \in {"IndexError", "ValueError"}

\* C1 (as claimed): a run that finds a match, at the first or at the second
\* attempt, returns a table where every probe id of the beta matrix is on
\* exactly one row, with a segment id.
C1_EveryBetaProbeOnce ==
    (DmrDone /\ MatchFound(dmr_in) /\ ~NumpyRaised) =>
        /\ dmr_out.kind = "table"
        /\ \A b \in Range(dmr_in.betas) :
              /\ Cardinality(RowsOf(dmr_out.table, b.id)) = 1
              /\ \A j \in RowsOf(dmr_out.table, b.id) : dmr_out.table[j].segment_id # NA

\* The squared Euclidean distance of two complete beta rows.
RECURSIVE SqDist(_, _)
SqDist(x, y) ==
    IF x = <<>> THEN 0
    ELSE (Head(x) - Head(y)) * (Head(x) - Head(y)) + SqDist(Tail(x), Tail(y))

Complete(r) == ~HasNa(r.vals)

\* r is not after s in the order of chromosome, start and end.
NotAfter(r, s) ==
    \/ ChromRank(r.Chromosome) < ChromRank(s.Chromosome)
    \/ r.Chromosome = s.Chromosome /\ r.Start < s.Start
    \/ r.Chromosome = s.Chromosome /\ r.Start = s.Start /\ r.End <= s.End

\* C2: the joined probes are in the order of chromosome and position; two
\* neighbours have the same segment id exactly when they are on one chromosome
\* and their squared distance is not above the cutoff; a segment is an
\* unbroken run of one chromosome; the table returned carries these ids.
C2_NeighboursSplitByCutoff ==
    (DmrDone /\ dmr_out.segment_id # <<>>) =>
        LET rows == dmr_out.cpg_ranges
            seg == dmr_out.segment_id
            n == Len(rows)
        IN /\ Len(seg) = n
           /\ \A i \in 1..(n - 1) : NotAfter(rows[i], rows[i + 1])
           /\ \A i \in 1..(n - 1) :
                (Complete(rows[i]) /\ Complete(rows[i + 1])) =>
                    ((seg[i] = seg[i + 1]) <=>
                        /\ rows[i].Chromosome = rows[i + 1].Chromosome
                        /\ dmr_out.cutoff.isnum
                        /\ 4 * SqDist(rows[i].vals, rows[i + 1].vals) <= dmr_out.cutoff.v4)
           /\ \A i, j \in 1..n :
                (i < j /\ seg[i] = seg[j]) =>
                    \A k \in i..j : seg[k] = seg[i] /\ rows[k].Chromosome = rows[i].Chromosome
           /\ dmr_out.kind = "table" =>
                \A i \in 1..n : \A j \in RowsOf(dmr_out.table, rows[i].id) :
                    dmr_out.table[j].segment_id = seg[i]

\* Four probes of one chromosome, only the distance from the second to the
\* third above the cutoff: the segments are {1, 2} and {3, 4}.
C2_Witness ==
    /\ Returned
    /\ Len(dmr_out.cpg_ranges) = 4
    /\ \A i \in 1..4 : dmr_out.cpg_ranges[i].Chromosome = "chr1"
    /\ dmr_out.cutoff.isnum
    /\ 4 * dmr_out.dist[1] <= dmr_out.cutoff.v4
    /\ 4 * dmr_out.dist[2] > dmr_out.cutoff.v4
    /\ 4 * dmr_out.dist[3] <= dmr_out.cutoff.v4
    /\ dmr_out.segment_id[1] = dmr_out.segment_id[2]
    /\ dmr_out.segment_id[3] = dmr_out.segment_id[4]
    /\ dmr_out.segment_id[2] # dmr_out.segment_id[3]

\* No beta id is an annotation id, with or without the annotation's suffix.
NoSharedId(in) ==
    \A a \in Range(in.annotation) : \A b \in Range(in.betas) :
        a.id # b.id /\ <<a.id[1], "">> # b.id

\* C3 (as claimed): without a shared probe id, and with a range in the
\* annotation, the run logs the no-match error, returns the empty table and
\* does not segment.
C3_NoMatchReturnsEmpty ==
    (DmrDone /\ NoSharedId(dmr_in) /\ dmr_in.betas # <<>>
        /\ \E a \in Range(dmr_in.annotation) : a.End > a.Start) =>
        /\ dmr_out.kind = "empty"
        /\ NoMatchError \in Range(dmr_out.log)
        /\ ~dmr_out.segmented

\* The number of change points strictly before probe i.
ChangePointsBefore(cp, i) == Cardinality({j \in 1..(i - 1) : cp[j]})

\* C8 (as claimed): the segment id of a probe is the number of change points
\* before it, the first probe has segment id 0.
C8_IdsCountFromZero ==
    (Returned /\ ~dmr_out.retried) =>
        \A i \in 1..Len(dmr_out.segment_id) :
            dmr_out.segment_id[i] = ChangePointsBefore(dmr_out.change_points, i)

\* C8 (amended): the segment id of a probe is 1 + the number of change points
\* before it: the first probe has segment id 1, the id grows by exactly 1 after
\* a change point and not otherwise, and the ids are 1..max.
C8_IdsCountFromOne ==
    (DmrDone /\ dmr_out.segment_id # <<>>) =>
        LET seg == dmr_out.segment_id
            cp == dmr_out.change_points
        IN /\ seg[1] = 1
           /\ \A i \in 1..Len(seg) : seg[i] = 1 + ChangePointsBefore(cp, i)
           /\ \A i \in 1..(Len(seg) - 1) : seg[i + 1] = seg[i] + (IF cp[i] THEN 1 ELSE 0)
           /\ Range(seg) = 1..seg[Len(seg)]

C8_Witness ==
    /\ Returned /\ ~dmr_out.retried
    /\ \E i \in 1..(Len(dmr_out.segment_id) - 1) : dmr_out.change_points[i]
    /\ \E i \in 1..(Len(dmr_out.segment_id) - 1) : ~dmr_out.change_points[i]

\* The outcome without its log.
Result(o) == [o EXCEPT !.log = <<>>]

InvalidSegPerLocus(in) ==
    ~in.dist_cutoff.given /\ (in.seg_per_locus <= 0 \/ in.seg_per_locus >= 4)

\* C10: without dist_cutoff and with seg_per_locus outside ]0, 1[ the run does not
\* stop on seg_per_locus, warns, and ends as the run with seg_per_locus = 0.5.
C10_InvalidSegPerLocusIsOneHalf ==
    (DmrDone /\ InvalidSegPerLocus(dmr_in)) =>
        /\ dmr_out.kind # "ValueError"
        /\ Result(dmr_out) = Result(Run([dmr_in EXCEPT !.seg_per_locus = 2]))
        /\ dmr_out.segmented =>
              "warning: invalid seg_per_locus, setting it to 0.5" \in Range(dmr_out.log)

\* An invalid seg_per_locus on distances where the quantile matters.
C10_Witness ==
    /\ Returned /\ InvalidSegPerLocus(dmr_in)
    /\ \E i, j \in 1..Len(dmr_out.dist) :
          /\ ~dmr_out.last[i] /\ ~dmr_out.last[j]
          /\ dmr_out.dist[i] # dmr_out.dist[j]
    /\ \E i, j \in 1..Len(dmr_out.table) :
          i # j /\ dmr_out.table[i].segment_id = dmr_out.table[j].segment_id

\* The orders of the numbers of S.
RECURSIVE Orders(_)
Orders(S) ==
    IF S = {} THEN {<<>>}
    ELSE UNION {{<<x>> \o p : p \in Orders(S \ {x})} : x \in S}

\* The table t with its rows in the order f.
Permuted(t, f) == AsSeq([k \in 1..Len(t) |-> t[f[k]]])

RowOrders(t) == Orders(1..Len(t))

\* probe id -> segment_id of a returned table.
SegMap(o) == {<<o.table[j].id, o.table[j].segment_id>> : j \in 1..Len(o.table)}

JoinedIds(o) == {o.cpg_ranges[i].id : i \in 1..Len(o.cpg_ranges)}

\* probe id -> segment_id of the probes segmented by distance.
DistanceSegMap(o) == {p \in SegMap(o) : p[1] \in JoinedIds(o)}
\* The probes that got a segment of their own, and the ids of these segments.
SingletonProbes(o) == {p[1] : p \in SegMap(o) \ DistanceSegMap(o)}
SingletonIds(o) == {p[2] : p \in SegMap(o) \ DistanceSegMap(o)}

\* C7 (as claimed): reordering the rows of the beta matrix leaves the segment id of
\* every probe unchanged.
C7_RowOrderKeepsEveryId ==
    (Returned /\ ~dmr_out.retried) =>
        \A f \in RowOrders(dmr_in.betas) :
            LET o == Run([dmr_in EXCEPT !.betas = Permuted(dmr_in.betas, f)])
            IN o.kind = "table" /\ SegMap(o) = SegMap(dmr_out)

\* No two joined probes have the same chromosome, start and end.
DistinctRanges(o) ==
    \A i, j \in 1..Len(o.cpg_ranges) :
        i # j => ~(/\ o.cpg_ranges[i].Chromosome = o.cpg_ranges[j].Chromosome
                   /\ o.cpg_ranges[i].Start = o.cpg_ranges[j].Start
                   /\ o.cpg_ranges[i].End = o.cpg_ranges[j].End)

SameSegmentation(o, p) ==
    /\ o.kind = "table"
    /\ DistanceSegMap(o) = DistanceSegMap(p)
    /\ SingletonProbes(o) = SingletonProbes(p)
    /\ SingletonIds(o) = SingletonIds(p)

\* C7 (amended): reordering the rows of the beta matrix, or the rows of the
\* annotation when no two joined probes have the same range, leaves unchanged
\* the segment id of every probe segmented by distance, the set of the probes
\* that get a segment of their own and the set of the ids of these segments.
C7_RowOrderKeepsSegments ==
    Returned =>
        /\ \A f \in RowOrders(dmr_in.betas) :
              SameSegmentation(Run([dmr_in EXCEPT !.betas = Permuted(dmr_in.betas, f)]), dmr_out)
        /\ DistinctRanges(dmr_out) =>
              \A g \in RowOrders(dmr_in.annotation) :
                 SameSegmentation(
                    Run([dmr_in EXCEPT !.annotation = Permuted(dmr_in.annotation, g)]), dmr_out)

\* Two probes with a segment of their own beside a probe segmented by
\* distance: reordering the rows of the beta matrix exchanges their ids.
C7_Witness ==
    /\ Returned /\ ~dmr_out.retried
    /\ Cardinality(SingletonProbes(dmr_out)) >= 2
    /\ DistanceSegMap(dmr_out) # {}
    /\ DistinctRanges(dmr_out)
    /\ Len(dmr_in.annotation) >= 2
    /\ \E f \in RowOrders(dmr_in.betas) :
          SegMap(Run([dmr_in EXCEPT !.betas = Permuted(dmr_in.betas, f)])) # SegMap(dmr_out)

(***************************************************************************)
(* get_dmp                                                                  *)
(***************************************************************************)
DmpDone == dmp_pc = "done"
DmpReturned == DmpDone /\ dmp_out.kind = "table"

\* The beta matrix get_dmp fits: the rows left by dropna unless keep_na.
FittedBetas == IF dmp_in.keep_na THEN dmp_in.betas ELSE DropNa(dmp_in.betas)

\* The fit of probe i of the beta matrix.
FitOf(i) ==
    get_model_parameters(FittedBetas[i].vals, dmp_in.design_columns,
                         FactorNames(dmp_in.design_columns))

\* No sample is left for the regression of probe i.
FitFails(i) == \A k \in 1..Len(FittedBetas[i].vals) : FittedBetas[i].vals[k] = NA

Validated == "sample_name" \in Range(dmp_in.sample_sheet)

\* C4: in the sequential and in the parallel path, when the fit of one
\* probe fails the call still returns a table with one row per probe, the
\* fitted values in the row of every other probe: the failure does not
\* abort the batch.
C4_FitFailureKeepsBatch ==
    (DmpDone /\ Validated /\ \E i \in 1..Len(FittedBetas) : FitFails(i))
        => /\ dmp_out.kind = "table"
           /\ Len(dmp_out.rows) = Len(FittedBetas)
           /\ \A j \in 1..Len(FittedBetas) : ~FitFails(j) => dmp_out.rows[j] = FitOf(j)

ParallelPath == Validated /\ Len(FittedBetas) > ParallelThreshold

\* The table of the sequential path for the arguments of the call.
SequentialTable ==
    Outcome(SequentialResults(FittedBetas, dmp_in.design_columns,
                              FactorNames(dmp_in.design_columns)),
            FittedBetas, ColumnNames(FactorNames(dmp_in.design_columns)))

\* C5: whatever the order in which the workers end, the parallel path
\* returns what the sequential path returns for the same arguments: row i is
\* the fit of probe i of the beta matrix, under the id of probe i.
C5_ParallelAsSequential ==
    (DmpDone /\ ParallelPath)
        => /\ dmp_out = SequentialTable
           /\ dmp_out.kind = "table" =>
                /\ Len(dmp_out.rows) = Len(FittedBetas)
                /\ Len(dmp_out.index) = Len(FittedBetas)
                /\ \A i \in 1..Len(FittedBetas) :
                      /\ dmp_out.index[i] = FittedBetas[i].id
                      /\ dmp_out.rows[i] = FitOf(i)

\* The workers ended in another order than the probes', and the rows of the
\* table differ.
C5_Witness ==
    /\ DmpReturned
    /\ ParallelPath
    /\ \E k \in 1..Len(dmp_run.order) : dmp_run.order[k] # k
    /\ \E i, j \in 1..Len(dmp_out.rows) : dmp_out.rows[i] # dmp_out.rows[j]

\* The names of the pool without "intercept" in any case.
NonInterceptNames == { <<"a", "g", "e">>, <<"s", "e", "x">> }
NonIntercept(name) == name \in NonInterceptNames
ReportedFactors == SelectSeq(dmp_in.design_columns, NonIntercept)

\* C6: the columns of the table are p_value and then, for each column of
\* the design matrix without "intercept" in any case, in the order of the
\* design matrix, t_value_, estimate_ and std_err_ of that column; every
\* value of the table comes from a fit on the whole design matrix, the
\* intercept column included.
C6_ColumnsPerFactor ==
    DmpReturned =>
        /\ Len(dmp_out.columns) = 1 + 3 * Len(ReportedFactors)
        /\ dmp_out.columns[1] = <<"p", "_", "v", "a", "l", "u", "e">>
        /\ \A k \in 1..Len(ReportedFactors) :
              /\ dmp_out.columns[3 * k - 1]
                    = <<"t", "_", "v", "a", "l", "u", "e", "_">> \o ReportedFactors[k]
              /\ dmp_out.columns[3 * k]
                    = <<"e", "s", "t", "i", "m", "a", "t", "e", "_">> \o ReportedFactors[k]
              /\ dmp_out.columns[3 * k + 1]
                    = <<"s", "t", "d", "_", "e", "r", "r", "_">> \o ReportedFactors[k]
        /\ \A i \in 1..Len(dmp_out.rows) :
              /\ Len(dmp_out.rows[i]) = Len(dmp_out.columns)
              /\ dmp_out.rows[i][1].stat = "f_pvalue"
              /\ \A c \in 1..Len(dmp_out.rows[i]) :
                    dmp_out.rows[i][c].exog = dmp_in.design_columns
              /\ \A k \in 1..Len(ReportedFactors) :
                    /\ dmp_out.rows[i][3 * k - 1].stat = "tvalues"
                    /\ dmp_out.rows[i][3 * k].stat = "params"
                    /\ dmp_out.rows[i][3 * k + 1].stat = "bse"
                    /\ \A c \in (3 * k - 1)..(3 * k + 1) :
                          dmp_out.rows[i][c].factor = ReportedFactors[k]

\* A table with rows, of a design matrix with an intercept column and a
\* factor.
C6_Witness ==
    /\ DmpReturned
    /\ dmp_out.rows # <<>>
    /\ ReportedFactors # <<>>
    /\ \E c \in 1..Len(dmp_in.design_columns) : ~NonIntercept(dmp_in.design_columns[c])

\* C9: without a sample_name column in the sample sheet, get_dmp logs an
\* error and returns None: it raises nothing, builds no design matrix and
\* fits no probe.
C9_NoSampleNameReturnsNone ==
    (DmpDone /\ ~Validated)
        => /\ dmp_out.kind = "None"
           /\ dmp_out.log # <<>>
           /\ dmp_run.design_matrix = <<>>
           /\ dmp_run.order = <<>>
           /\ dmp_run.slots = <<>>

\* The call has returned on a sample sheet without sample_name, with probes
\* to fit.
C9_Witness ==
    /\ DmpDone
    /\ ~Validated
    /\ dmp_in.betas # <<>>
    /\ dmp_in.design_columns # <<>>
    /\ dmp_out.kind = "None"

(***************************************************************************)
(* get_dmr: the segments of the probes left out, the segments' ranges, the  *)
(* probes that are segmented.                                               *)
(***************************************************************************)
\* The rows of the table of a probe that has no row in cpg_ranges.
UnsegmentedRows == {i \in 1..Len(dmr_out.table) : dmr_out.table[i].id \notin JoinedIds(dmr_out)}

\* C13: in the table get_dmr returns, a probe that got no segment id from
\* the segmentation by distance has a segment id that no segment of the
\* segmentation has and no other row of the table has: it is alone in its
\* segment.
C13_LeftOutProbesAreAlone ==
    Returned =>
        \A i \in UnsegmentedRows :
            /\ dmr_out.table[i].segment_id # NA
            /\ dmr_out.table[i].segment_id \notin Range(dmr_out.segment_id)
            /\ \A j \in 1..Len(dmr_out.table) :
                  j # i => dmr_out.table[j].segment_id # dmr_out.table[i].segment_id

\* A table with a probe without value, a probe of zero width and a segment
\* of the segmentation by distance.
C13_Witness ==
    /\ Returned
    /\ \E i, j \in UnsegmentedRows :
          /\ i # j
          /\ dmr_out.table[i].End = dmr_out.table[i].Start
          /\ dmr_out.table[j].End > dmr_out.table[j].Start
    /\ \E j \in 1..Len(dmr_out.table) : j \notin UnsegmentedRows

SameSegment(i) == {j \in 1..Len(dmr_out.table) :
                      dmr_out.table[j].segment_id = dmr_out.table[i].segment_id}

\* C14: in every row of the table, segment_start is the least Start and
\* segment_end the greatest End of the rows of the table with the same
\* segment_id.
C14_SegmentRangeIsMinMax ==
    Returned =>
        \A i \in 1..Len(dmr_out.table) :
            /\ \A j \in SameSegment(i) :
                  /\ dmr_out.table[i].segment_start <= dmr_out.table[j].Start
                  /\ dmr_out.table[i].segment_end >= dmr_out.table[j].End
                  /\ dmr_out.table[j].segment_start = dmr_out.table[i].segment_start
                  /\ dmr_out.table[j].segment_end = dmr_out.table[i].segment_end
            /\ \E j \in SameSegment(i) :
                  dmr_out.table[i].segment_start = dmr_out.table[j].Start
            /\ \E j \in SameSegment(i) :
                  dmr_out.table[i].segment_end = dmr_out.table[j].End

\* A table with a segment of two probes of different ranges and a segment of
\* one probe.
C14_Witness ==
    /\ Returned
    /\ \E i, j \in 1..Len(dmr_out.table) :
          /\ j \in SameSegment(i)
          /\ dmr_out.table[i].Start < dmr_out.table[j].Start
          /\ dmr_out.table[i].End < dmr_out.table[j].End
    /\ \E i \in 1..Len(dmr_out.table) : SameSegment(i) = {i}

\* The annotation row r has a range and there is a complete beta row of its
\* id, as it is (first attempt) or without its suffix (second attempt).
JoinsCompleteBetas(r, in, retried) ==
    /\ r.End > r.Start
    /\ \E b \in Range(in.betas) :
          /\ ~HasNa(b.vals)
          /\ b.id = (IF retried THEN <<r.id[1], "">> ELSE r.id)

\* C15: in both attempts of a run that finds a match, the probes that are
\* sorted, measured and split are the annotation probes with a range and a
\* complete beta row of the same id, and only these.
C15_OnlyCompleteProbesSegmented ==
    (DmrDone /\ dmr_out.segmented /\ MatchFound(dmr_in)) =>
        /\ \A i \in 1..Len(dmr_out.cpg_ranges) :
              /\ ~HasNa(dmr_out.cpg_ranges[i].vals)
              /\ \E b \in Range(dmr_in.betas) :
                    b.id = dmr_out.cpg_ranges[i].id /\ b.vals = dmr_out.cpg_ranges[i].vals
        /\ \A r \in Range(dmr_in.annotation) :
              JoinsCompleteBetas(r, dmr_in, dmr_out.retried)
                 => \E i \in 1..Len(dmr_out.cpg_ranges) :
                       /\ dmr_out.cpg_ranges[i].Start = r.Start
                       /\ dmr_out.cpg_ranges[i].End = r.End
                       /\ dmr_out.cpg_ranges[i].Chromosome = r.Chromosome

(***************************************************************************)
(* get_dmr: the adjusted p-values of the segments.                          *)
(***************************************************************************)
\* The rows of the table with a segment p-value.
DefinedRows == {i \in 1..Len(dmr_out.table) : dmr_out.table[i].segment_p_value # NA}
TestedSegments == {dmr_out.table[i].segment_id : i \in DefinedRows}
PValueOfSegment(sid) ==
    dmr_out.table[CHOOSE i \in DefinedRows : dmr_out.table[i].segment_id = sid].segment_p_value

\* The p-value of segment sid times the number of tested segments, over its
\* rank among them.
StepUp(sid) ==
    Frac(PValueOfSegment(sid) * Cardinality(TestedSegments),
         One * Cardinality({t \in TestedSegments : PValueOfSegment(t) <= PValueOfSegment(sid)}))

\* Benjamini and Hochberg's adjustment of the p-value p among the p-values of
\* the tested segments, one for each segment.
AdjustedOverSegments(p) ==
    LET steps == {StepUp(sid) : sid \in {t \in TestedSegments : PValueOfSegment(t) >= p}}
        least == CHOOSE f \in steps : \A g \in steps : ~FracLess(g, f)
    IN IF least.num > least.den THEN Frac(1, 1) ELSE least

\* C11: segment_p_value_adjusted is Benjamini and Hochberg's adjustment over
\* the p-values of the segments, one test for each segment with a p-value,
\* however many probes it has; a row without segment p-value has no adjusted
\* value.
C11_AdjustedOverSegments ==
    Returned =>
        \A i \in 1..Len(dmr_out.table) :
            IF i \in DefinedRows
            THEN dmr_out.table[i].segment_p_value_adjusted
                    = AdjustedOverSegments(dmr_out.table[i].segment_p_value)
            ELSE ~dmr_out.table[i].segment_p_value_adjusted.isnum

\* C12: on the rows with a segment p-value, the adjusted value is at least
\* the p-value, and of two rows the one with the smaller or equal p-value
\* never has the larger adjusted value.
C12_AdjustedIsMonotone ==
    Returned =>
        \A i \in DefinedRows :
            LET a == dmr_out.table[i].segment_p_value_adjusted
            IN /\ a.isnum
               /\ a.num * One >= dmr_out.table[i].segment_p_value * a.den
               /\ \A j \in DefinedRows :
                     dmr_out.table[i].segment_p_value <= dmr_out.table[j].segment_p_value
                        => ~FracLess(dmr_out.table[j].segment_p_value_adjusted, a)

\* A table with two rows of different p-values and different adjusted values,
\* one of them adjusted upwards, and a row without p-value.
C12_Witness ==
    /\ Returned
    /\ \E i, j \in DefinedRows :
          /\ dmr_out.table[i].segment_p_value < dmr_out.table[j].segment_p_value
          /\ FracLess(dmr_out.table[i].segment_p_value_adjusted,
                      dmr_out.table[j].segment_p_value_adjusted)
          /\ dmr_out.table[i].segment_p_value_adjusted.num * One
                > dmr_out.table[i].segment_p_value * dmr_out.table[i].segment_p_value_adjusted.den
    /\ \E k \in 1..Len(dmr_out.table) : k \notin DefinedRows

(***************************************************************************)
(* Samples.betas                                                            *)
(***************************************************************************)
\* C16: whatever was dispatched before, betas(mask=False) returns None
\* unless calculate_betas was dispatched and nothing but the three mask
\* methods after it; on a new object it returns None and does not raise.
C16_BetasNoneUntilCalculated ==
    [][(betas(FALSE) /\ ~smp_calculated) => smp_last'.ret = "None"]_vars

====
